---- MODULE Spec2Model ----
(***************************************************************************)
(* Lattice: the @advisor pipeline of create_message (router, handlers with *)
(* their degradation tiers, aggregation) and the deterministic fallback    *)
(* engine, as state machines.                                              *)
(*                                                                         *)
(* A text is a sequence of tokens; the tokens "SP" and "NL" are white      *)
(* space, every other token is an opaque run of visible characters.        *)
(***************************************************************************)
EXTENDS Integers, Sequences, FiniteSets, TLC

\* ------------------------------------------------------------------ bounds
MaxQueryWords == 1
MaxAgents == 3

\* ------------------------------------------------------------- vocabulary
NONE == "<none>"
UNHASHABLE == "<list>"

Whitespace == {"SP", "NL"}

\* Words a query is made of. Each word stands for a run of characters; the
\* keyword terms of decider_agent.py found in its lower-cased form are
\* given by TermsOf.
QueryWords ==
    {"split $120 dinner evenly", "SPLIT", "best card", "afford", "hello",
     "split the best card i can afford"}

Lower(word) ==
    CASE word = "SPLIT" -> "split"
      [] word = "BEST CARD FOR GAS" -> "best card for gas"
      [] OTHER -> word

TermsOf(lowered) ==
    CASE lowered = "split $120 dinner evenly" -> {"split"}
      [] lowered = "split" -> {"split"}
      [] lowered = "split the best card i can afford" -> {"split", "best card", "afford"}
      [] lowered = "best card" -> {"best card"}
      [] lowered = "afford" -> {"afford"}
      [] lowered \in {"best card for travel and dining", "best card for groceries",
                      "best card for gas"} -> {"best card"}
      [] lowered = "which card gives great cashback" -> {"cashback"}
      [] OTHER -> {}

group_keywords ==
    {"split", "settle", "owe", "per person", "we ", " our ", " group", "team",
     "together", "let's", "lets"}

credit_keywords ==
    {"credit score", "best card", "cashback", "points", "apr", "reward", "signup bonus"}

individual_keywords ==
    {"should i buy", "buy now", "buying", "afford", "my spending", "my budget",
     "my transactions", "can i buy"}

valid_agents == {"individual", "credit_score", "group_task", "conversational"}

\* ------------------------------------------------------------------ texts
APOLOGY == <<"I ran into an issue generating a response. Please try again later.">>
NO_QUESTION == <<"Hi there! Add a question after @advisor so I know how to help.">>
NO_SPECIALIST == <<"I couldn't decide which specialist to use. Try rephrasing your request!">>

RECURSIVE LStrip(_)
LStrip(t) ==
    IF t # <<>> /\ Head(t) \in Whitespace THEN LStrip(Tail(t)) ELSE t

RECURSIVE RStrip(_)
RStrip(t) ==
    IF t # <<>> /\ t[Len(t)] \in Whitespace THEN RStrip(SubSeq(t, 1, Len(t) - 1)) ELSE t

\* str.strip()
Strip(t) == RStrip(LStrip(t))

\* s[:n]
Take(s, n) == SubSeq(s, 1, IF Len(s) < n THEN Len(s) ELSE n)

RECURSIVE SeqsUpTo(_, _)
SeqsUpTo(S, n) ==
    IF n = 0 THEN {<<>>}
    ELSE LET shorter == SeqsUpTo(S, n - 1)
         IN  shorter \cup {Append(s, x) : s \in shorter, x \in S}


\* ------------------------------------------------------------ router
\* any(term in lowered for term in keywords), on the lower-cased message
Matches(query, keywords) ==
    \E i \in 1..Len(query) : TermsOf(Lower(query[i])) \cap keywords # {}

\* a router that looks for the credit keywords before the group keywords
_heuristic_route_credit_first(message) ==
    IF message = <<>> THEN NONE
    ELSE IF Matches(message, credit_keywords) THEN "2"
    ELSE IF Matches(message, group_keywords) THEN "3"
    ELSE IF Matches(message, individual_keywords) THEN "1"
    ELSE NONE

\* a router that looks for the personal-finance keywords first
_heuristic_route_individual_first(message) ==
    IF message = <<>> THEN NONE
    ELSE IF Matches(message, individual_keywords) THEN "1"
    ELSE IF Matches(message, group_keywords) THEN "3"
    ELSE IF Matches(message, credit_keywords) THEN "2"
    ELSE NONE

\* _heuristic_route: "3", "2", "1" or NONE
_heuristic_route(message) ==
    IF message = <<>> THEN NONE
    ELSE IF Matches(message, group_keywords) THEN "3"
    ELSE IF Matches(message, credit_keywords) THEN "2"
    ELSE IF Matches(message, individual_keywords) THEN "1"
    ELSE NONE

\* What the generative classifier may hand back as result.final_output.
\*   digit    a single character, perhaps padded with white space
\*   text     words that are no JSON document
\*   nontext  a value that is no string (final_output is None)
\*   json     a JSON document: a non-object, or an object whose "agents"
\*            member is missing, null, a number, a string or a list
TagAlphabet == valid_agents \cup {"unknown"}

\* payloads naming more tags than are dispatched
LongLists ==
    {<<"group_task", "credit_score", "individual", "conversational">>,
     <<"individual", "individual", "credit_score", "group_task">>,
     <<"unknown", "conversational", "credit_score", "group_task">>}

AgentLists == SeqsUpTo(TagAlphabet, MaxAgents) \cup LongLists \cup {<<UNHASHABLE>>}

AgentsMembers ==
    {[k |-> "missing", v |-> <<>>], [k |-> "null", v |-> <<>>],
     [k |-> "zero", v |-> <<>>], [k |-> "number", v |-> <<>>],
     [k |-> "string", v |-> <<"c", "o", "n", "v">>]}
    \cup {[k |-> "list", v |-> l] : l \in AgentLists}

ClassifierOutputs ==
    {[kind |-> "digit", d |-> d, padded |-> p, agents |-> [k |-> "missing", v |-> <<>>]] :
        d \in {"1", "2", "3", "4", "5"}, p \in BOOLEAN}
    \cup {[kind |-> k, d |-> NONE, padded |-> FALSE, agents |-> [k |-> "missing", v |-> <<>>]] :
        k \in {"text", "nontext", "nondict"}}
    \cup {[kind |-> "dict", d |-> NONE, padded |-> FALSE, agents |-> a] : a \in AgentsMembers}

NoOutput == [kind |-> NONE, d |-> NONE, padded |-> FALSE, agents |-> [k |-> "missing", v |-> <<>>]]

Digit(d) == [kind |-> "digit", d |-> d, padded |-> FALSE, agents |-> [k |-> "missing", v |-> <<>>]]

digit_payload_map(d) ==
    CASE d = "1" -> [k |-> "list", v |-> <<"individual">>]
      [] d = "2" -> [k |-> "list", v |-> <<"credit_score">>]
      [] d = "3" -> [k |-> "list", v |-> <<"group_task">>]
      [] d = "4" -> [k |-> "list", v |-> <<"conversational">>]

Default_agents == [k |-> "list", v |-> <<"conversational">>]

\* chats.py 141-154: the "agents" member of decider_payload, then
\* `decider_payload.get("agents") or ["conversational"]`
decider_payload_agents(raw) ==
    IF raw.kind = "digit" /\ raw.d \in {"1", "2", "3", "4"} THEN digit_payload_map(raw.d)
    ELSE IF raw.kind = "dict" THEN raw.agents
    ELSE Default_agents

Falsy(a) ==
    \/ a.k \in {"missing", "null", "zero"}
    \/ a.k \in {"list", "string"} /\ a.v = <<>>

agent_keys_of(raw) ==
    LET a == decider_payload_agents(raw)
    IN  IF Falsy(a) THEN Default_agents ELSE a

\* agent_keys[:3] raises TypeError for a value that cannot be sliced
Sliceable(a) == a.k \in {"list", "string"}


\* ------------------------------------------- deterministic fallback engine
\* individual_agent.py 21-23, 87
FALLBACK_WINDOW_DAYS == 30
FALLBACK_RECENT_DAYS == 7
DEFAULT_TIMEOUT_SECONDS == 60
ABSOLUTE_THRESHOLD == 400

\* A transaction record as the engine reads it:
\*   ts       what tx.get("datetime") holds: "missing", "unparsable", "naive"
\*            (an ISO timestamp without offset) or "aware" (with offset)
\*   day      the timestamp's day number (read only when ts parses)
\*   total    _safe_float(price.get("total")): 0 when the price or its total
\*            is missing or unparsable
\*   paid     the sum of the payment methods' transaction_amount
\*   merchant the merchant's name, NONE when missing
Tx(ts, day, total, paid, merchant) ==
    [ts |-> ts, day |-> day, total |-> total, paid |-> paid, merchant |-> merchant]

\* _parse_datetime: None for a missing or unparsable value
Parses(ts) == ts \in {"naive", "aware"}

\* individual_agent.py 69-71: `total or sum(payment methods)`
amount_of(tx) == IF tx.total # 0 THEN tx.total ELSE tx.paid

\* individual_agent.py 72
merchant_name_of(tx) == IF tx.merchant = NONE THEN "Unknown merchant" ELSE tx.merchant

\* individual_agent.py 54-56: today_dt; `now` is datetime.now(timezone.utc),
\* read when `today` does not parse. A naive today_dt is made UTC, so
\* today_dt always carries an offset.
today_day(today, now) == IF Parses(today.ts) THEN today.day ELSE now

\* individual_agent.py 74, 77: `tx_dt >= start` with start aware raises
\* TypeError for a naive tx_dt
CompareRaises(tx) == tx.ts = "naive"

Seen(txs) == {i \in 1..Len(txs) : Parses(txs[i].ts)}

\* the loop of individual_agent.py 64-78 stops at the first record whose
\* comparison raises
FirstRaise(txs) ==
    IF \E i \in Seen(txs) : CompareRaises(txs[i])
    THEN CHOOSE i \in Seen(txs) :
            CompareRaises(txs[i]) /\ \A j \in Seen(txs) : CompareRaises(txs[j]) => i <= j
    ELSE 0

InWindow(tx, today_dt, days) == tx.day >= today_dt - days

RECURSIVE SumAmounts(_, _)
SumAmounts(txs, keep) ==
    IF keep = {} THEN 0
    ELSE LET i == CHOOSE i \in keep : TRUE
         IN  amount_of(txs[i]) + SumAmounts(txs, keep \ {i})

\* individual_agent.py 74-78
total_in(txs, today_dt, days) ==
    SumAmounts(txs, {i \in Seen(txs) : InWindow(txs[i], today_dt, days)})

\* individual_agent.py 76: merchant_totals
merchant_total(txs, today_dt, name) ==
    SumAmounts(txs, {i \in Seen(txs) :
        InWindow(txs[i], today_dt, FALLBACK_WINDOW_DAYS) /\ merchant_name_of(txs[i]) = name})

\* a top merchant named also when no record lies in the window
top_merchant_unknown(txs, today_dt) ==
    LET inw == {i \in Seen(txs) : InWindow(txs[i], today_dt, FALLBACK_WINDOW_DAYS)}
    IN  IF inw = {} THEN "Unknown merchant"
        ELSE merchant_name_of(txs[CHOOSE i \in inw : \A j \in inw : i <= j])

\* individual_agent.py 80-84: max() keeps the first of the largest totals,
\* in the order the merchants entered merchant_totals
top_merchant(txs, today_dt) ==
    LET inw == {i \in Seen(txs) : InWindow(txs[i], today_dt, FALLBACK_WINDOW_DAYS)}
        tot(i) == merchant_total(txs, today_dt, merchant_name_of(txs[i]))
        first(i) == \A j \in inw : merchant_name_of(txs[j]) = merchant_name_of(txs[i]) => i <= j
    IN  IF inw = {} THEN NONE
        ELSE merchant_name_of(txs[
                CHOOSE i \in inw : /\ first(i)
                                   /\ \A j \in inw : first(j) =>
                                         \/ tot(j) < tot(i)
                                         \/ tot(j) = tot(i) /\ i <= j])

\* individual_agent.py 86-87: monthly_avg = total_30 / 4 is zero exactly when
\* total_30 is, and then the fixed threshold is compared
risk_branch_of(total_30) == IF total_30 # 0 THEN "relative" ELSE "absolute"

\* a flag set also when the recent sum equals the limit
risk_flag_at_limit(total_7, total_30) ==
    IF total_30 # 0 THEN 16 * total_7 >= 5 * total_30 ELSE total_7 >= ABSOLUTE_THRESHOLD

\* individual_agent.py 86-87, amounts being whole numbers:
\* total_7 > (total_30 / 4) * 1.25  <=>  16 * total_7 > 5 * total_30
risk_flag_of(total_7, total_30) ==
    IF total_30 # 0 THEN 16 * total_7 > 5 * total_30 ELSE total_7 > ABSOLUTE_THRESHOLD

\* _build_deterministic_recommendation: what it computes, or that it raised
_build_deterministic_recommendation(txs, today, now) ==
    LET today_dt == today_day(today, now)
        total_7 == total_in(txs, today_dt, FALLBACK_RECENT_DAYS)
        total_30 == total_in(txs, today_dt, FALLBACK_WINDOW_DAYS)
    IN  IF FirstRaise(txs) # 0
        THEN [raised |-> TRUE, total_7 |-> 0, total_30 |-> 0, top |-> NONE, risk |-> FALSE,
              branch |-> NONE]
        ELSE [raised |-> FALSE, total_7 |-> total_7, total_30 |-> total_30,
              top |-> top_merchant(txs, today_dt),
              branch |-> risk_branch_of(total_30),
              risk |-> risk_flag_of(total_7, total_30)]

\* individual_agent.py 90-99: the rendered explanation
recommendation_text(r, query) ==
    <<"**Purchase Recommendation:** Wait", "NL",
      "past 7 days", ToString(r.total_7), "last 30 days", ToString(r.total_30),
      IF r.top = NONE THEN "Top merchant: data not yet available." ELSE r.top, "NL",
      IF r.risk THEN "Recent spend looks elevated" ELSE "Recent spend is within a steady band",
      "NL", "**Additional Advice:**">>
    \o (IF query = <<>> THEN <<"this purchase">> ELSE query)

\* ------------------------------------------------- handlers' local parts
\* credit_score_agent.py 56-63: CATEGORY_KEYWORDS, in the order of the dict
CATEGORY_ORDER == <<"travel", "dining", "groceries", "entertainment", "gas", "online">>

CATEGORY_KEYWORDS(category) ==
    CASE category = "travel" ->
            {"travel", "flight", "air", "airline", "hotel", "vacation", "trip"}
      [] category = "dining" -> {"dining", "restaurant", "food", "eat", "coffee", "drink"}
      [] category = "groceries" -> {"grocery", "groceries", "supermarket", "market"}
      [] category = "entertainment" -> {"concert", "entertainment", "movie", "show"}
      [] category = "gas" -> {"gas", "fuel"}
      [] category = "online" -> {"amazon", "online", "shopping"}

\* the category keywords that occur in a lower-cased word as substrings
\* ("eat" occurs in "great"); the words of the router's vocabulary hold none
CategoryTermsOf(lowered) ==
    CASE lowered = "best card for travel and dining" -> {"travel", "dining"}
      [] lowered = "best card for groceries" -> {"groceries"}
      [] lowered = "which card gives great cashback" -> {"eat"}
      [] lowered = "best card for gas" -> {"gas"}
      [] OTHER -> {}

\* credit_score_agent.py 93-98: the first category of the dict one of whose
\* keywords occurs in the lower-cased query
_detect_category(query) ==
    LET hit(k) == \E i \in 1..Len(query) :
                      CategoryTermsOf(Lower(query[i])) \cap CATEGORY_KEYWORDS(CATEGORY_ORDER[k]) # {}
    IN  IF \E k \in 1..Len(CATEGORY_ORDER) : hit(k)
        THEN CATEGORY_ORDER[CHOOSE k \in 1..Len(CATEGORY_ORDER) :
                                hit(k) /\ \A j \in 1..Len(CATEGORY_ORDER) : hit(j) => k <= j]
        ELSE "general"

\* credit_score_agent.py 65-90: the card names of CATEGORY_RECOMMENDATIONS
CATEGORY_RECOMMENDATIONS(category) ==
    CASE category = "travel" -> <<"Chase Sapphire Preferred", "Capital One Venture Rewards">>
      [] category = "dining" -> <<"American Express Gold", "Capital One Savor">>
      [] category = "groceries" -> <<"Amex Blue Cash Preferred", "Amex Blue Cash Everyday">>
      [] category = "entertainment" -> <<"Capital One Savor", "Chase Freedom Flex">>
      [] category = "gas" -> <<"Costco Anywhere Visa", "Bank of America Customized Cash">>
      [] category = "online" -> <<"Amazon Prime Rewards Visa", "Chase Freedom Unlimited">>
      [] OTHER -> <<>>

\* credit_score_agent.py 101-109
_format_recommendation(category) ==
    IF CATEGORY_RECOMMENDATIONS(category) = <<>> THEN "Chase Freedom Unlimited"
    ELSE CATEGORY_RECOMMENDATIONS(category)[1]

\* credit_score_agent.py 112-117: NONE when the category has no second card
_format_backup(category) ==
    IF Len(CATEGORY_RECOMMENDATIONS(category)) > 1 THEN CATEGORY_RECOMMENDATIONS(category)[2]
    ELSE NONE

\* the card names no entry of CREDIT_CARD_KNOWLEDGE holds
NotInCatalog == {"Amex Blue Cash Preferred", "Amex Blue Cash Everyday"}

\* credit_score_agent.py 150-153, 158-161: the catalog entry that holds the
\* name, or the name alone
card_details(name) == IF name \in NotInCatalog THEN <<name>> ELSE <<name, "catalog entry">>

\* credit_score_agent.py 134-141
CREDIT_NO_KEY_TEXT == <<"**Best Card:**", "Chase Freedom Unlimited", "NL",
                        "**Backup Option:**", "Discover it Cash Back">>

\* credit_score_agent.py 145-174
credit_text(category) ==
    <<"**Best Card:**">> \o card_details(_format_recommendation(category))
    \o <<"NL", "**Why it Wins:**",
         IF category = "general" THEN "everyday spending" ELSE category, "NL">>
    \o (IF _format_backup(category) = NONE THEN <<>>
        ELSE <<"**Backup Option:**">> \o card_details(_format_backup(category)))
    \o <<"NL", "**Extra Advice:** Set a reminder to review your statement in a week">>

\* conversational_agent.py 65-68
CONVERSATIONAL_NO_KEY_TEXT == <<"Hey", "SP", "Alice Demo", "!", "SP", "Thanks for checking in.">>

\* group_task_agent.py 116-125: the first number in the text, in cents;
\* -1 stands for None
amount_in(word) ==
    CASE word = "split $120 dinner evenly" -> 12000
      [] word = "split $100 lunch" -> 10000
      [] OTHER -> -1

_extract_amount(query) ==
    IF \E i \in 1..Len(query) : amount_in(query[i]) >= 0
    THEN amount_in(query[CHOOSE i \in 1..Len(query) :
            /\ amount_in(query[i]) >= 0
            /\ \A j \in 1..Len(query) : amount_in(query[j]) >= 0 => i <= j])
    ELSE -1

\* f"{x:0.2f}" of amount / count, in cents, rounded to the nearest cent
share_cents(amount, count) == (2 * amount + count) \div (2 * count)

\* group_task_agent.py 146-184: the answer without a generative backend
group_fallback_text(members, query) ==
    LET participants_count == Len(members)
        amount_value == _extract_amount(query)
        resolvable == amount_value >= 0 /\ participants_count # 0
        members_list == IF members # <<>> THEN members ELSE <<"Member 1", "Member 2">>
        line(i) == <<"-", members_list[i],
                     IF resolvable THEN ToString(share_cents(amount_value, participants_count))
                     ELSE "amount TBD", "NL">>
        lines[i \in 0..Len(members_list)] == IF i = 0 THEN <<>> ELSE lines[i - 1] \o line(i)
    IN  <<"**Task Summary:**", "NL", "**Suggested Split:**", "NL">>
        \o lines[Len(members_list)]
        \o <<"**Next Step:**",
             IF amount_value >= 0 THEN ToString(amount_value) ELSE "the total amount", "NL",
             "**Notes:** I'll then divide it instantly and track any follow-ups.">>

\* group_task_agent.py 205-218: the shares put into the prompt of the
\* generative backend, f"{amount / count:.2f}" and
\* f"{(amount * 1.15) / count:.2f}" in cents
per_person_of(amount_value, participants_count) ==
    IF amount_value >= 0 /\ participants_count > 0
    THEN ToString(share_cents(amount_value, participants_count))
    ELSE "calculated after confirming participants"

per_person_tip_of(amount_value, participants_count) ==
    IF amount_value >= 0 /\ participants_count > 0
    THEN ToString(share_cents(115 * amount_value, 100 * participants_count))
    ELSE "depends on final tip"

\* group_task_agent.py 201-218: participant_hint, amount_hint and the shares
group_prompt_hints(members, query) ==
    LET participants_count == Len(members)
        amount_value == _extract_amount(query)
    IN  <<IF participants_count # 0 THEN ToString(participants_count) ELSE "everyone involved",
          IF amount_value >= 0 THEN ToString(amount_value) ELSE "the amount mentioned",
          per_person_of(amount_value, participants_count),
          per_person_tip_of(amount_value, participants_count)>>

\* A reply of the generative backend to a handler: its text may carry
\* white space around it
BackendReplies(key) ==
    {[kind |-> "text", text |-> <<"answer to", key>>],
     [kind |-> "text", text |-> <<"SP", "answer to", key, "NL">>],
     [kind |-> "nontext", text |-> <<>>]}

\* individual_agent.py 119-123: timeout_seconds from DEDALUS_AGENT_TIMEOUT,
\* which is unset (or empty), a text int() rejects, or a number
TimeoutEnvs ==
    {[kind |-> "unset", n |-> 0], [kind |-> "invalid", n |-> 0],
     [kind |-> "int", n |-> 20]}

timeout_seconds_of(timeout_env) ==
    IF timeout_env.kind = "int" THEN timeout_env.n ELSE DEFAULT_TIMEOUT_SECONDS

\* a second budget of half the first rounded up
secondary_timeout_half_up(timeout_seconds) ==
    IF (timeout_seconds + 1) \div 2 > 15 THEN (timeout_seconds + 1) \div 2 ELSE 15

\* individual_agent.py 263
secondary_timeout_of(timeout_seconds) ==
    IF timeout_seconds \div 2 > 15 THEN timeout_seconds \div 2 ELSE 15

\* load_user_transactions: what the stored files may hold
TodayDay == 40

StoredPurchases ==
    {<<Tx("aware", 38, 130, 0, "Amazon")>>,
     <<Tx("naive", 38, 130, 0, "Amazon")>>}

\* chats.py 107: today_str is a date without offset
today_str == [ts |-> "naive", day |-> TodayDay]

\* ------------------------------------------------------------ state
VARIABLES
    apiKey,              \* os.getenv("DEDALUS_API_KEY") is set
    pc,                  \* where the create_message coroutine stands
    chat_id,             \* the request's chat
    user_query,          \* content after the trigger, stripped
    MOCK_MESSAGES,       \* chat id -> list of stored messages
    message_id_counter,  \* _message_id_counter
    decider_raw,         \* what run_decider_agent returned
    agent_keys,          \* decider_payload.get("agents") or ["conversational"]
    idx,                 \* position of the dispatch loop in agent_keys[:3]
    results,             \* list of (key, text)
    response,            \* what create_message handed to its caller
    hpc,                 \* where the running handler stands
    call,                \* the generative call in flight
    attempts,            \* tiers started by the running handler and how each ended
    mock_purchases,      \* the records loaded for the individual handler
    hret,                \* what the handler handed to the dispatch loop
    hin,                 \* the arguments the running handler was called with
    abandoned,           \* models of the calls asyncio.wait_for gave up for the running
                         \* handler and the backend has not answered yet
    requests,            \* the create_message calls that share the store: where each
                         \* stands and the ids it took
    fb_pc,               \* a handler's local part on its own: "idle", "ready", "done", "twice",
                         \* "prompted", "budgeted"
    fb_in,               \* its arguments
    fb_out,              \* its result
    fb_again             \* the result of a second call with the same arguments

vars ==
    <<apiKey, pc, chat_id, user_query, MOCK_MESSAGES, message_id_counter, decider_raw,
      agent_keys, idx, results, response, hpc, call, attempts, mock_purchases, hret, hin,
      abandoned, requests, fb_pc, fb_in, fb_out, fb_again>>

fbVars == <<fb_pc, fb_in, fb_out, fb_again>>
backendVars == <<abandoned>>
sideVars == <<fbVars, requests>>
envVars == <<apiKey, sideVars, backendVars>>
pipelineVars ==
    <<pc, chat_id, user_query, MOCK_MESSAGES, message_id_counter, decider_raw,
      agent_keys, idx, results, response, hpc, call, attempts, mock_purchases, hret, hin,
      abandoned, requests>>

\* the pipeline's own state, the backend's left out
pipelineHeld ==
    <<pc, chat_id, user_query, MOCK_MESSAGES, message_id_counter, decider_raw,
      agent_keys, idx, results, response, hpc, call, attempts, mock_purchases, hret, hin>>

routerVars == <<decider_raw, agent_keys, idx, results>>
handlerVars == <<hpc, call, attempts, mock_purchases, hret, hin>>
storeVars == <<MOCK_MESSAGES, message_id_counter>>

\* MOCK_CHATS, MOCK_GROUPS
ChatIds == {1, 2, 3}
RequestChatIds == {1, 2, 9}

members_of(chat) ==
    CASE chat = 2 -> <<"Alice Demo", "Bob Test">>
      [] chat = 3 -> <<"Alice Demo", "Bob Test", "Charlie Sample">>
      [] OTHER -> <<>>

\* The keyword arguments of a handler call: `passed` names the kinds of
\* context among them, the fields of the kinds not passed are empty.
Args(passed, purchases, members, history, profile) ==
    [passed |-> passed, purchases |-> purchases, members |-> members, history |-> history,
     profile |-> profile, query |-> user_query, today |-> today_str]

NoArgs ==
    [passed |-> {}, purchases |-> <<>>, members |-> <<>>, history |-> <<>>, profile |-> NONE,
     query |-> <<>>, today |-> [ts |-> "naive", day |-> 0]]

\* chats.py 114-117: recent_history, the sender and content of the chat's
\* last 10 messages
recent_history(store, chat) ==
    LET all == [i \in 1..Len(store[chat]) |->
                    [sender_type |-> store[chat][i].sender_type,
                     content |-> store[chat][i].content]]
    IN  SubSeq(all, IF Len(all) > 10 THEN Len(all) - 9 ELSE 1, Len(all))

\* chats.py 172-177: mock_purchases, user_query, today
individual_args(purchases) == Args({"purchases"}, purchases, <<>>, <<>>, NONE)

\* chats.py 178-183: user_cards (the fixed card knowledge), user_query, today
credit_args == Args({"cards"}, <<>>, <<>>, <<>>, NONE)

\* a group handler that is handed the user's records too
group_args_with_purchases(store, chat) ==
    Args({"group", "history", "profile", "purchases"}, <<Tx("aware", 38, 130, 0, "Amazon")>>,
         members_of(chat), recent_history(store, chat), "Alice Demo")

\* chats.py 184-195: group_context (group, members, recent_messages,
\* requested_by), user_query, today
group_args(store, chat) ==
    Args({"group", "history", "profile"}, <<>>, members_of(chat),
         recent_history(store, chat), "Alice Demo")

\* chats.py 196-207: user_profile, conversation_history, user_query, today
conversational_args(store, chat) ==
    Args({"history", "profile"}, <<>>, <<>>, recent_history(store, chat), "Alice Demo")

NoCall == [state |-> "none", deadline |-> 0, model |-> NONE, tools |-> FALSE]
NoRet == [kind |-> "none", text |-> <<>>]
NoResponse == [status |-> "none", ai |-> <<>>]

NoEnv == [kind |-> "unset", n |-> 0]

NoInput == [kind |-> NONE, records |-> <<>>, today |-> [ts |-> "naive", day |-> 0],
            now |-> 0, members |-> <<>>, query |-> <<>>, timeout_env |-> NoEnv]
NoOutcome == [raised |-> FALSE, text |-> <<>>, total_7 |-> 0, total_30 |-> 0,
              top |-> NONE, risk |-> FALSE, branch |-> NONE]

\* the largest number of create_message calls that share the store
MaxRequests == 3

Requests == 1..MaxRequests

\* a call that has not come in yet
NoRequest == [pc |-> "new", chat |-> 0, user_message |-> 0, ai_message |-> 0]

PipelineIdle ==
    /\ requests = [r \in Requests |-> NoRequest]
    /\ pc = "idle"
    /\ chat_id = 0
    /\ user_query = <<>>
    /\ MOCK_MESSAGES = [c \in ChatIds |-> <<>>]
    /\ message_id_counter = 100
    /\ decider_raw = NoOutput
    /\ agent_keys = Default_agents
    /\ idx = 0
    /\ results = <<>>
    /\ response = NoResponse
    /\ hpc = "idle"
    /\ call = NoCall
    /\ attempts = <<>>
    /\ mock_purchases = <<>>
    /\ hret = NoRet
    /\ hin = NoArgs
    /\ abandoned = {}

Init ==
    /\ apiKey \in BOOLEAN
    /\ PipelineIdle
    /\ fb_pc = "idle"
    /\ fb_in = NoInput
    /\ fb_out = NoOutcome
    /\ fb_again = NoOutcome

Message(id, sender, content) == [id |-> id, sender_type |-> sender, content |-> content]

\* chats.py 229-247: store the AI message and return both messages
Reply(store, counter, chat, text) ==
    /\ MOCK_MESSAGES' = [store EXCEPT ![chat] = Append(@, Message(counter, "ai", text))]
    /\ message_id_counter' = counter + 1
    /\ response' = [status |-> "returned", ai |-> text]
    /\ pc' = "done"

\* chats.py 66-127: the request up to the call of the decider
create_message(chat, sender, trigger, words) ==
    /\ pc = "idle"
    /\ chat_id' = chat
    /\ UNCHANGED <<envVars, routerVars, handlerVars>>
    /\ IF chat \notin ChatIds
       THEN /\ pc' = "done"
            /\ response' = [status |-> "http404", ai |-> <<>>]
            /\ UNCHANGED <<user_query, storeVars>>
       ELSE LET content == IF trigger THEN <<"@advisor">> \o words ELSE words
                stored == [MOCK_MESSAGES EXCEPT
                              ![chat] = Append(@, Message(message_id_counter, sender, content))]
            IN  IF sender = "user" /\ trigger
                THEN /\ user_query' = words
                     /\ IF words = <<>>
                        THEN Reply(stored, message_id_counter + 1, chat, NO_QUESTION)
                        ELSE /\ MOCK_MESSAGES' = stored
                             /\ message_id_counter' = message_id_counter + 1
                             /\ pc' = "decider"
                             /\ UNCHANGED response
                ELSE /\ MOCK_MESSAGES' = stored
                     /\ message_id_counter' = message_id_counter + 1
                     /\ pc' = "done"
                     /\ response' = [status |-> "returned_no_ai", ai |-> <<>>]
                     /\ UNCHANGED user_query

\* a router that calls the generative classifier without looking for the key
run_decider_agent_always_calls ==
    /\ pc = "decider"
    /\ IF _heuristic_route(user_query) # NONE
       THEN /\ decider_raw' = Digit(_heuristic_route(user_query))
            /\ pc' = "parse"
            /\ UNCHANGED call
       ELSE /\ call' = [state |-> "pending", deadline |-> 0,
                        model |-> "openai/gpt-4.1-mini", tools |-> FALSE]
            /\ pc' = "decider_await"
            /\ UNCHANGED decider_raw
    /\ UNCHANGED <<envVars, chat_id, user_query, storeVars, agent_keys, idx, results, response,
                   hpc, attempts, mock_purchases, hret, hin>>

\* decider_agent.py 63-116: the deterministic pass, the default without a
\* key, or the call of the generative classifier
run_decider_agent ==
    /\ pc = "decider"
    /\ LET heuristic_result == _heuristic_route(user_query)
       IN  IF heuristic_result # NONE
           THEN /\ decider_raw' = Digit(heuristic_result)
                /\ pc' = "parse"
                /\ UNCHANGED call
           ELSE IF ~apiKey
           THEN /\ decider_raw' = Digit("4")
                /\ pc' = "parse"
                /\ UNCHANGED call
           ELSE /\ call' = [state |-> "pending", deadline |-> 0,
                            model |-> "openai/gpt-4.1-mini", tools |-> FALSE]
                /\ pc' = "decider_await"
                /\ UNCHANGED decider_raw
    /\ UNCHANGED <<envVars, chat_id, user_query, storeVars, agent_keys, idx, results, response,
                   hpc, attempts, mock_purchases, hret, hin>>

\* decider_agent.py 118-123: the classifier answers
decider_answers(raw) ==
    /\ pc = "decider_await"
    /\ call.state = "pending"
    /\ decider_raw' = raw
    /\ call' = NoCall
    /\ pc' = "parse"
    /\ UNCHANGED <<envVars, chat_id, user_query, storeVars, agent_keys, idx, results, response,
                   hpc, attempts, mock_purchases, hret, hin>>

\* decider_agent.py 118: runner.run raises; nothing in run_decider_agent or
\* in create_message (chats.py 128) catches it
decider_raises ==
    /\ pc = "decider_await"
    /\ call.state = "pending"
    /\ call' = NoCall
    /\ pc' = "raised"
    /\ response' = [status |-> "raised", ai |-> <<>>]
    /\ UNCHANGED <<envVars, chat_id, user_query, storeVars, routerVars,
                   hpc, attempts, mock_purchases, hret, hin>>

\* the backend of the call in flight will never answer
backend_goes_silent ==
    /\ call.state = "pending"
    /\ call' = [call EXCEPT !.state = "silent"]
    /\ UNCHANGED <<envVars, pc, chat_id, user_query, storeVars, routerVars, response,
                   hpc, attempts, mock_purchases, hret, hin>>

\* chats.py 134-164: parse the decider's output
parse_decider ==
    /\ pc = "parse"
    /\ agent_keys' = agent_keys_of(decider_raw)
    /\ idx' = 1
    /\ results' = <<>>
    /\ pc' = "loop"
    /\ UNCHANGED <<envVars, chat_id, user_query, storeVars, decider_raw, response, handlerVars>>


\* --------------------------------------------------------- dispatch loop
keys_to_run == Take(agent_keys.v, 3)

current_key == keys_to_run[idx]

\* chats.py 166-168: the next key of agent_keys[:3]
dispatch_next ==
    /\ pc = "loop"
    /\ UNCHANGED <<envVars, chat_id, user_query, storeVars, decider_raw, agent_keys, results,
                   call, attempts, mock_purchases, hret, hin>>
    /\ IF ~Sliceable(agent_keys)
       THEN /\ pc' = "raised"
            /\ response' = [status |-> "raised", ai |-> <<>>]
            /\ UNCHANGED <<idx, hpc>>
       ELSE IF idx > Len(keys_to_run)
       THEN /\ pc' = "aggregate"
            /\ UNCHANGED <<idx, hpc, response>>
       ELSE IF current_key = UNHASHABLE
       THEN /\ pc' = "raised"
            /\ response' = [status |-> "raised", ai |-> <<>>]
            /\ UNCHANGED <<idx, hpc>>
       ELSE IF current_key \notin valid_agents
       THEN /\ idx' = idx + 1
            /\ UNCHANGED <<pc, hpc, response>>
       ELSE /\ pc' = "handler"
            /\ hpc' = "start"
            /\ UNCHANGED <<idx, response>>

\* the tiers of the running invocation: tier 1 and tier 2 are generative
\* attempts, tier 3 is the deterministic path
Started(tier) == Append(attempts, [tier |-> tier, end |-> "running"])

Ended(how) == [attempts EXCEPT ![Len(attempts)].end = how]

Returns(value) ==
    /\ hret' = value
    /\ hpc' = "returned"
    /\ call' = NoCall

TextRet(t) == [kind |-> "text", text |-> t]
ExcRet == [kind |-> "exc", text |-> <<>>]

\* Tier 3: the deterministic recommendation, or the exception it raised
Tier3(purchases) ==
    LET r == _build_deterministic_recommendation(purchases, today_str, TodayDay)
    IN  IF r.raised THEN ExcRet ELSE TextRet(recommendation_text(r, user_query))

Tier3End(purchases) == IF Tier3(purchases).kind = "text" THEN "computed" ELSE "raised"

Generative(model, tools, deadline) ==
    [state |-> "pending", deadline |-> deadline, model |-> model, tools |-> tools]

\* individual_agent.py 247-249: attempt 1, gpt-5 with the MCP server
tier1_call(timeout_env) ==
    Generative("openai/gpt-5", TRUE, timeout_seconds_of(timeout_env))

\* individual_agent.py 263-265: attempt 2, the lighter model without MCP
tier2_call(timeout_seconds) ==
    Generative("openai/gpt-4.1-mini", FALSE, secondary_timeout_of(timeout_seconds))

\* chats.py 172-177, individual_agent.py 102-126, 247-249
run_individual_agent(purchases, timeout_env) ==
    /\ pc = "handler" /\ hpc = "start" /\ current_key = "individual"
    /\ mock_purchases' = purchases
    /\ hin' = individual_args(purchases)
    /\ IF ~apiKey
       THEN /\ Returns(Tier3(purchases))
            /\ attempts' = <<[tier |-> 3, end |-> Tier3End(purchases)]>>
       ELSE /\ call' = tier1_call(timeout_env)
            /\ attempts' = Started(1)
            /\ hpc' = "tier1"
            /\ UNCHANGED hret
    /\ UNCHANGED <<envVars, pc, chat_id, user_query, storeVars, routerVars, response>>

\* individual_agent.py 245: the attempt's result.final_output is returned
tier_answers(reply) ==
    /\ pc = "handler" /\ hpc \in {"tier1", "tier2"}
    /\ call.state = "pending"
    /\ Returns(reply)
    /\ attempts' = Ended("answered")
    /\ UNCHANGED <<envVars, pc, chat_id, user_query, storeVars, routerVars, response,
                   mock_purchases, hin>>

\* a handler that gives up on the generative backend after its first
\* failed attempt
NextTier_skip(how) ==
    /\ Returns(Tier3(mock_purchases))
    /\ attempts' = Append(Ended(how), [tier |-> 3, end |-> Tier3End(mock_purchases)])

\* individual_agent.py 250-265, 266-278: after a failed attempt
NextTier(how) ==
    IF hpc = "tier1"
    THEN /\ call' = tier2_call(call.deadline)
         /\ attempts' = Append(Ended(how), [tier |-> 2, end |-> "running"])
         /\ hpc' = "tier2"
         /\ UNCHANGED hret
    ELSE /\ Returns(Tier3(mock_purchases))
         /\ attempts' = Append(Ended(how), [tier |-> 3, end |-> Tier3End(mock_purchases)])

\* individual_agent.py 256, 272: the attempt raised
tier_raises ==
    /\ pc = "handler" /\ hpc \in {"tier1", "tier2"}
    /\ call.state = "pending"
    /\ NextTier("raised")
    /\ UNCHANGED <<envVars, pc, chat_id, user_query, storeVars, routerVars, response,
                   mock_purchases, hin>>

\* what the backend may answer to a call of the tiered handler
LateReplies == BackendReplies("individual")

\* individual_agent.py 241-244, 250, 266: asyncio.wait_for gave up; it has
\* cancelled runner.run, whose backend may still be working on the call
tier_times_out ==
    /\ pc = "handler" /\ hpc \in {"tier1", "tier2"}
    /\ call.state \in {"pending", "silent"}
    /\ call.deadline > 0
    /\ NextTier("timed_out")
    /\ abandoned' = abandoned \cup {call.model}
    /\ UNCHANGED <<apiKey, sideVars, pc, chat_id, user_query, storeVars, routerVars, response,
                   mock_purchases, hin>>

\* a backend that hands its late answer to the handler, whatever the
\* handler is doing
late_answer_delivered ==
    /\ abandoned # {}
    /\ pc = "handler" /\ hpc \in {"tier2", "returned"}
    /\ \E model \in abandoned : abandoned' = abandoned \ {model}
    /\ \E reply \in LateReplies : Returns(reply)
    /\ UNCHANGED <<apiKey, sideVars, pc, chat_id, user_query, storeVars, routerVars, response,
                   attempts, mock_purchases, hin>>

\* individual_agent.py 241-244: the backend answers a call wait_for gave up;
\* the task that awaited it was cancelled, so the answer reaches nobody
late_answer ==
    /\ abandoned # {}
    /\ \E model \in abandoned : abandoned' = abandoned \ {model}
    /\ UNCHANGED <<apiKey, sideVars, pipelineHeld>>

\* chats.py 178-183, credit_score_agent.py 125-143
run_credit_score_agent ==
    /\ pc = "handler" /\ hpc = "start" /\ current_key = "credit_score"
    /\ hin' = credit_args
    /\ IF ~apiKey
       THEN /\ Returns(TextRet(CREDIT_NO_KEY_TEXT))
            /\ attempts' = <<[tier |-> 3, end |-> "computed"]>>
       ELSE /\ hpc' = "sleep"
            /\ UNCHANGED <<hret, call, attempts>>
    /\ UNCHANGED <<envVars, pc, chat_id, user_query, storeVars, routerVars, response,
                   mock_purchases>>

\* credit_score_agent.py 145-174: after asyncio.sleep(0)
credit_resumes ==
    /\ pc = "handler" /\ hpc = "sleep"
    /\ Returns(TextRet(credit_text(_detect_category(user_query))))
    /\ attempts' = <<[tier |-> 3, end |-> "computed"]>>
    /\ UNCHANGED <<envVars, pc, chat_id, user_query, storeVars, routerVars, response,
                   mock_purchases, hin>>

\* chats.py 184-195, group_task_agent.py 140-244
run_group_task_agent ==
    /\ pc = "handler" /\ hpc = "start" /\ current_key = "group_task"
    /\ hin' = group_args(MOCK_MESSAGES, chat_id)
    /\ IF ~apiKey
       THEN /\ Returns(TextRet(group_fallback_text(members_of(chat_id), user_query)))
            /\ attempts' = <<[tier |-> 3, end |-> "computed"]>>
       ELSE /\ call' = Generative("openai/gpt-4.1", FALSE, 0)
            /\ attempts' = Started(1)
            /\ hpc' = "await"
            /\ UNCHANGED hret
    /\ UNCHANGED <<envVars, pc, chat_id, user_query, storeVars, routerVars, response,
                   mock_purchases>>

\* chats.py 196-207, conversational_agent.py 54-86
run_conversational_agent ==
    /\ pc = "handler" /\ hpc = "start" /\ current_key = "conversational"
    /\ hin' = conversational_args(MOCK_MESSAGES, chat_id)
    /\ IF ~apiKey
       THEN /\ Returns(TextRet(CONVERSATIONAL_NO_KEY_TEXT))
            /\ attempts' = <<[tier |-> 3, end |-> "computed"]>>
       ELSE /\ call' = Generative("openai/gpt-4.1-mini", FALSE, 0)
            /\ attempts' = Started(1)
            /\ hpc' = "await"
            /\ UNCHANGED hret
    /\ UNCHANGED <<envVars, pc, chat_id, user_query, storeVars, routerVars, response,
                   mock_purchases>>

\* group_task_agent.py 246, conversational_agent.py 88
handler_answers(reply) ==
    /\ pc = "handler" /\ hpc = "await"
    /\ call.state = "pending"
    /\ Returns(reply)
    /\ attempts' = Ended("answered")
    /\ UNCHANGED <<envVars, pc, chat_id, user_query, storeVars, routerVars, response,
                   mock_purchases, hin>>

\* group_task_agent.py 241, conversational_agent.py 83: runner.run raises
\* and the handler has no try around it
handler_raises ==
    /\ pc = "handler" /\ hpc = "await"
    /\ call.state = "pending"
    /\ Returns(ExcRet)
    /\ attempts' = Ended("raised")
    /\ UNCHANGED <<envVars, pc, chat_id, user_query, storeVars, routerVars, response,
                   mock_purchases, hin>>

\* chats.py 209-212: output.strip() is stored; an exception of the handler,
\* or of strip() on a value that is no text, stores the apology
section_text(ret) == IF ret.kind = "text" THEN Strip(ret.text) ELSE APOLOGY

\* a loop without the except clause: a failed handler ends the request
collect_result_aborts ==
    /\ pc = "handler" /\ hpc = "returned"
    /\ IF hret.kind = "text"
       THEN /\ results' = Append(results, <<current_key, Strip(hret.text)>>)
            /\ idx' = idx + 1
            /\ pc' = "loop"
            /\ UNCHANGED response
       ELSE /\ pc' = "raised"
            /\ response' = [status |-> "raised", ai |-> <<>>]
            /\ UNCHANGED <<results, idx>>
    /\ hpc' = "idle"
    /\ hret' = NoRet
    /\ attempts' = <<>>
    /\ mock_purchases' = <<>>
    /\ hin' = NoArgs
    /\ abandoned' = {}
    /\ UNCHANGED <<apiKey, sideVars, chat_id, user_query, storeVars, decider_raw, agent_keys, call>>

collect_result ==
    /\ pc = "handler" /\ hpc = "returned"
    /\ results' = Append(results, <<current_key, section_text(hret)>>)
    /\ idx' = idx + 1
    /\ pc' = "loop"
    /\ hpc' = "idle"
    /\ hret' = NoRet
    /\ attempts' = <<>>
    /\ mock_purchases' = <<>>
    /\ hin' = NoArgs
    /\ abandoned' = {}
    /\ UNCHANGED <<apiKey, sideVars, chat_id, user_query, storeVars, decider_raw, agent_keys,
                   response, call>>

\* chats.py 217-222
display_names(key) ==
    CASE key = "conversational" -> "Conversational Companion"
      [] key = "individual" -> "Personal Spending Advisor"
      [] key = "credit_score" -> "Credit Score Coach"
      [] key = "group_task" -> "Group Task Assistant"

\* chats.py 226: f"**{title}:**\n{text}"
section(result) == <<display_names(result[1]), "NL">> \o result[2]

\* chats.py 227: "\n\n".join(sections)
RECURSIVE join_sections(_)
join_sections(rs) ==
    IF rs = <<>> THEN <<>>
    ELSE IF Len(rs) = 1 THEN section(rs[1])
    ELSE section(rs[1]) \o <<"NL", "NL">> \o join_sections(Tail(rs))

\* sections joined by a single line break
agent_output_single_break(rs) ==
    LET acc[i \in 0..Len(rs)] ==
            IF i = 0 THEN <<>>
            ELSE acc[i - 1] \o (IF i = 1 THEN <<>> ELSE <<"NL">>) \o section(rs[i])
    IN  IF rs = <<>> THEN NO_SPECIALIST ELSE acc[Len(rs)]

\* chats.py 214-227
agent_output_of(rs) == IF rs = <<>> THEN NO_SPECIALIST ELSE join_sections(rs)

\* chats.py 214-247
aggregate ==
    /\ pc = "aggregate"
    /\ Reply(MOCK_MESSAGES, message_id_counter, chat_id, agent_output_of(results))
    /\ UNCHANGED <<envVars, chat_id, user_query, routerVars, handlerVars>>

\* what the backend may answer to the running handler
RepliesNow == IF pc = "handler" THEN BackendReplies(current_key) ELSE {}

Next ==
    \/ \E chat \in RequestChatIds, sender \in {"user", "ai"}, trigger \in BOOLEAN,
          words \in SeqsUpTo(QueryWords, MaxQueryWords) :
            create_message(chat, sender, trigger, words)
    \/ run_decider_agent
    \/ \E raw \in ClassifierOutputs : decider_answers(raw)
    \/ decider_raises
    \/ backend_goes_silent
    \/ parse_decider
    \/ dispatch_next
    \/ \E purchases \in StoredPurchases, timeout_env \in TimeoutEnvs :
            run_individual_agent(purchases, timeout_env)
    \/ \E reply \in RepliesNow : tier_answers(reply)
    \/ tier_raises
    \/ tier_times_out
    \/ late_answer
    \/ run_credit_score_agent
    \/ credit_resumes
    \/ run_group_task_agent
    \/ run_conversational_agent
    \/ \E reply \in RepliesNow : handler_answers(reply)
    \/ handler_raises
    \/ collect_result
    \/ aggregate

Spec == Init /\ [][Next]_vars


\* ------------------------------------- the fallback engine on its own
MaxRecords == 2

\* records the transaction files may hold
TxDomain ==
    {Tx("missing", 0, 130, 0, "Amazon"), Tx("unparsable", 0, 130, 0, "Amazon"),
     Tx("naive", TodayDay - 7, 130, 0, "Amazon")}
    \cup {Tx("aware", d, a[1], a[2], m) :
            d \in {TodayDay - 30, TodayDay - 7},
            a \in {<<130, 0>>, <<0, 50>>, <<0, 0>>},
            m \in {NONE, "Amazon"}}
    \cup {Tx("aware", TodayDay - 30, 270, 0, "Target"), Tx("aware", TodayDay - 30, 275, 0, "Target"),
          Tx("aware", TodayDay - 7, 125, 0, "Amazon"),
          Tx("aware", TodayDay - 30, 0 - 450, 0, "Target"), Tx("aware", TodayDay - 7, 450, 0, "Amazon"),
          Tx("aware", TodayDay - 31, 130, 0, "Amazon"), Tx("aware", TodayDay - 8, 130, 0, "Target"),
          Tx("aware", TodayDay + 1, 130, 0, "Amazon")}

Todays ==
    {[ts |-> "unparsable", day |-> 0], [ts |-> "naive", day |-> TodayDay],
     [ts |-> "aware", day |-> TodayDay]}

\* datetime.now(timezone.utc), read when `today` does not parse
Clock(today) == IF Parses(today.ts) THEN {0} ELSE {TodayDay, TodayDay + 1}

Rosters == {members_of(c) : c \in ChatIds}

\* the words of a query to the group handler
FallbackWords == QueryWords \cup {"split $100 lunch"}

\* the arguments of a call of the personal-finance fallback, the wall clock
\* reading `now`
IndividualInput(records, today, now) ==
    [kind |-> "individual", records |-> records, today |-> today, now |-> now,
     members |-> <<>>, query |-> <<>>, timeout_env |-> NoEnv]

\* the arguments of a call of the group handler
GroupInput(members, query) ==
    [kind |-> "group", records |-> <<>>, today |-> [ts |-> "naive", day |-> TodayDay],
     now |-> 0, members |-> members, query |-> query, timeout_env |-> NoEnv]

\* the largest number DEDALUS_AGENT_TIMEOUT is set to
MaxTimeout == 64

\* individual_agent.py 119: what DEDALUS_AGENT_TIMEOUT may hold
BudgetEnvs ==
    {[kind |-> "unset", n |-> 0], [kind |-> "invalid", n |-> 0]}
    \cup {[kind |-> "int", n |-> n] : n \in (0 - 2)..MaxTimeout}

\* the words of a query to the credit handler
CreditQueryWords ==
    {"best card", "best card for travel and dining", "best card for groceries",
     "which card gives great cashback", "BEST CARD FOR GAS"}

\* the arguments of a call of the credit handler
CreditInput(query) ==
    [kind |-> "credit", records |-> <<>>, today |-> [ts |-> "naive", day |-> TodayDay],
     now |-> 0, members |-> <<>>, query |-> query, timeout_env |-> NoEnv]

\* the environment of a tiered handler that is about to start its attempts
BudgetInput(timeout_env) ==
    [kind |-> "budget", records |-> <<>>, today |-> [ts |-> "naive", day |-> TodayDay],
     now |-> 0, members |-> <<>>, query |-> <<>>, timeout_env |-> timeout_env]

InitFallback ==
    /\ PipelineIdle
    /\ fb_pc = "ready"
    /\ \/ /\ apiKey = FALSE
          /\ \/ \E t \in Todays, r \in SeqsUpTo(TxDomain, MaxRecords) :
                  \E n \in Clock(t) : fb_in = IndividualInput(r, t, n)
             \/ \E m \in Rosters, q \in SeqsUpTo(FallbackWords, MaxQueryWords) :
                  fb_in = GroupInput(m, q)
             \/ \E e \in BudgetEnvs : fb_in = BudgetInput(e)
       \/ /\ apiKey \in BOOLEAN
          /\ \E q \in SeqsUpTo(CreditQueryWords, MaxQueryWords) : fb_in = CreditInput(q)
    /\ fb_out = NoOutcome
    /\ fb_again = NoOutcome

\* what a call of _build_deterministic_recommendation gives when the wall
\* clock reads `now`
recommendation_outcome(records, query, today, now) ==
    LET r == _build_deterministic_recommendation(records, today, now)
    IN  [raised |-> r.raised,
         text |-> IF r.raised THEN <<>> ELSE recommendation_text(r, query),
         total_7 |-> r.total_7, total_30 |-> r.total_30, top |-> r.top,
         risk |-> r.risk, branch |-> r.branch]

\* individual_agent.py 49-99
build_recommendation ==
    /\ fb_pc = "ready" /\ fb_in.kind = "individual"
    /\ fb_out' = recommendation_outcome(fb_in.records, fb_in.query, fb_in.today, fb_in.now)
    /\ fb_pc' = "done"
    /\ UNCHANGED <<apiKey, pipelineVars, fb_in, fb_again>>

\* individual_agent.py 49-99: a second call with the same arguments, the
\* wall clock having gone on or not
build_recommendation_again ==
    /\ fb_pc = "done" /\ fb_in.kind = "individual"
    /\ \E now \in Clock(fb_in.today) :
          /\ now >= fb_in.now
          /\ fb_again' = recommendation_outcome(fb_in.records, fb_in.query, fb_in.today, now)
    /\ fb_pc' = "twice"
    /\ UNCHANGED <<apiKey, pipelineVars, fb_in, fb_out>>

\* group_task_agent.py 146-184
group_fallback ==
    /\ fb_pc = "ready" /\ fb_in.kind = "group"
    /\ fb_out' = [NoOutcome EXCEPT !.text = group_fallback_text(fb_in.members, fb_in.query)]
    /\ fb_pc' = "done"
    /\ UNCHANGED <<apiKey, pipelineVars, fb_in, fb_again>>

\* group_task_agent.py 186-239: what the handler computes for the prompt
\* when a generative backend is configured
group_prompt ==
    /\ fb_pc = "ready" /\ fb_in.kind = "group"
    /\ fb_out' = [NoOutcome EXCEPT !.text = group_prompt_hints(fb_in.members, fb_in.query)]
    /\ fb_pc' = "prompted"
    /\ UNCHANGED <<apiKey, pipelineVars, fb_in, fb_again>>

\* the settings of a generative call as text: model, tools, seconds
call_text(c) == <<c.model, IF c.tools THEN "tools" ELSE "no tools", ToString(c.deadline)>>

\* individual_agent.py 119-123, 247-249, 263-265: the settings of attempt 1
\* and of the attempt 2 that follows it
tier_budgets ==
    /\ fb_pc = "ready" /\ fb_in.kind = "budget"
    /\ LET first == tier1_call(fb_in.timeout_env)
       IN  fb_out' = [NoOutcome EXCEPT
                        !.text = call_text(first) \o call_text(tier2_call(first.deadline))]
    /\ fb_pc' = "budgeted"
    /\ UNCHANGED <<apiKey, pipelineVars, fb_in, fb_again>>

\* credit_score_agent.py 125-174: what the credit handler returns, with
\* and without DEDALUS_API_KEY
credit_recommendation ==
    /\ fb_pc = "ready" /\ fb_in.kind = "credit"
    /\ fb_out' = [NoOutcome EXCEPT
                    !.text = IF ~apiKey THEN CREDIT_NO_KEY_TEXT
                             ELSE credit_text(_detect_category(fb_in.query))]
    /\ fb_pc' = "done"
    /\ UNCHANGED <<apiKey, pipelineVars, fb_in, fb_again>>

NextFallback ==
    \/ credit_recommendation
    \/ build_recommendation
    \/ build_recommendation_again
    \/ group_fallback
    \/ group_prompt
    \/ tier_budgets

SpecFallback == InitFallback /\ [][NextFallback]_vars


\* ------------------------------- create_message calls that interleave
\* Calls of create_message run on one event loop: a call runs alone from one
\* await that gives control to the scheduler to the next. Such awaits are
\* the classifier call, the handlers' backend calls and asyncio.sleep(0);
\* all of them need DEDALUS_API_KEY, without it a call runs through.
\* Between two awaits of one call nothing touches the store, so a waiting
\* call is followed from its first await to its last one.
InitInterleave ==
    /\ apiKey \in BOOLEAN
    /\ PipelineIdle
    /\ fb_pc = "idle"
    /\ fb_in = NoInput
    /\ fb_out = NoOutcome
    /\ fb_again = NoOutcome

\* what the single-call parts of the pipeline keep
singleCallVars ==
    <<pc, chat_id, user_query, routerVars, response, handlerVars, abandoned, apiKey, fbVars>>

\* chats.py 229-241: ai_response takes the counter's value, the counter is
\* raised and the message appended to the chat's list
StoreReply(store, counter, r, req) ==
    /\ MOCK_MESSAGES' = [store EXCEPT
                            ![req.chat] = Append(@, Message(counter, "ai", <<"composite">>))]
    /\ message_id_counter' = counter + 1
    /\ requests' = [requests EXCEPT ![r] = [req EXCEPT !.pc = "done", !.ai_message = counter]]

\* chats.py 72-132: a call comes in and runs to its first await that gives
\* control away (`suspends`), or to its end
post_message(r, chat, sender, trigger, words, suspends) ==
    /\ requests[r].pc = "new"
    /\ \A q \in Requests : q < r => requests[q].pc # "new"
    /\ UNCHANGED singleCallVars
    /\ IF chat \notin ChatIds
       THEN /\ requests' = [requests EXCEPT ![r] = [NoRequest EXCEPT !.pc = "http404"]]
            /\ UNCHANGED storeVars
       ELSE LET content == IF trigger THEN <<"@advisor">> \o words ELSE words
                stored == [MOCK_MESSAGES EXCEPT
                              ![chat] = Append(@, Message(message_id_counter, sender, content))]
                req == [NoRequest EXCEPT !.chat = chat, !.user_message = message_id_counter]
            IN  IF sender = "user" /\ trigger
                THEN IF words = <<>> \/ ~suspends
                     THEN StoreReply(stored, message_id_counter + 1, r, req)
                     ELSE /\ MOCK_MESSAGES' = stored
                          /\ message_id_counter' = message_id_counter + 1
                          /\ requests' = [requests EXCEPT ![r] = [req EXCEPT !.pc = "suspended"]]
                ELSE /\ MOCK_MESSAGES' = stored
                     /\ message_id_counter' = message_id_counter + 1
                     /\ requests' = [requests EXCEPT ![r] = [req EXCEPT !.pc = "done"]]

\* a call that settles the id of its AI message before its awaits
resume_stale(r) ==
    /\ requests[r].pc = "suspended"
    /\ UNCHANGED singleCallVars
    /\ MOCK_MESSAGES' = [MOCK_MESSAGES EXCEPT ![requests[r].chat] =
            Append(@, Message(requests[r].user_message + 1, "ai", <<"composite">>))]
    /\ message_id_counter' = message_id_counter + 1
    /\ requests' = [requests EXCEPT ![r].pc = "done",
                                    ![r].ai_message = requests[r].user_message + 1]

\* chats.py 128-247: the last awaited call answers and create_message runs
\* through lines 214-247 to its end
resume(r) ==
    /\ requests[r].pc = "suspended"
    /\ UNCHANGED singleCallVars
    /\ StoreReply(MOCK_MESSAGES, message_id_counter, r, requests[r])

\* chats.py 128-168: the awaited classifier call raises and create_message
\* ends without an AI message
request_raises(r) ==
    /\ requests[r].pc = "suspended"
    /\ requests' = [requests EXCEPT ![r].pc = "raised"]
    /\ UNCHANGED <<singleCallVars, storeVars>>

\* what a call's content may be: a user's question for the advisor, the
\* trigger alone, a user's plain message, a message sent as AI
Contents ==
    {[sender |-> "user", trigger |-> TRUE, words |-> <<"hello">>],
     [sender |-> "user", trigger |-> TRUE, words |-> <<>>],
     [sender |-> "user", trigger |-> FALSE, words |-> <<"hello">>],
     [sender |-> "ai", trigger |-> TRUE, words |-> <<"hello">>]}

NextInterleave ==
    \/ \E r \in Requests, chat \in RequestChatIds, m \in Contents,
          suspends \in (IF apiKey THEN BOOLEAN ELSE {FALSE}) :
            post_message(r, chat, m.sender, m.trigger, m.words, suspends)
    \/ \E r \in Requests : resume(r)
    \/ \E r \in Requests : request_raises(r)

SpecInterleave == InitInterleave /\ [][NextInterleave]_vars


\* ------------------------------------------------------------ properties
\* the decider's output was parsed: the request is an @advisor query
Parsed == idx > 0

ResultKeys == [i \in 1..Len(results) |-> results[i][1]]

NoDuplicates(seq) == \A i, j \in 1..Len(seq) : seq[i] = seq[j] => i = j

\* C1: the @advisor path of create_message never raises to its caller,
\* whatever the classifier call and the handler calls do.
C1_NeverRaises == response.status # "raised"


\* the keys of agent_keys[:3] a handler exists for, in order
RoutedTags ==
    IF Sliceable(agent_keys) THEN SelectSeq(Take(agent_keys.v, 3), LAMBDA k : k \in valid_agents)
    ELSE <<>>

\* the handler of the running invocation failed: it raised, or what it
\* returned is no text
HandlerFailed == hret.kind # "text"

\* the step that takes a handler's outcome into the results
Collecting == pc = "handler" /\ hpc = "returned" /\ hpc' # "returned"

C2_Rendered ==
    (pc = "done" /\ Parsed) =>
        /\ ResultKeys = RoutedTags
        /\ response.status = "returned"
        /\ \A i \in 1..Len(results) :
              \E at \in 1..Len(response.ai) :
                  SubSeq(response.ai, at, at + Len(section(results[i])) - 1) = section(results[i])

C2_StepStripped ==
    Collecting =>
        /\ pc' = "loop"
        /\ results' = Append(results, <<current_key,
                                        IF HandlerFailed THEN APOLOGY ELSE Strip(hret.text)>>)

C2_StepExact ==
    Collecting =>
        /\ pc' = "loop"
        /\ results' = Append(results, <<current_key,
                                        IF HandlerFailed THEN APOLOGY ELSE hret.text>>)

C2_ResultsKept ==
    ~Collecting => (results' = results \/ (pc = "parse" /\ results = <<>>))

Labels ==
    [k \in valid_agents |->
        CASE k = "group_task" -> "Group Task Assistant"
          [] k = "credit_score" -> "Credit Score Coach"
          [] k = "individual" -> "Personal Spending Advisor"
          [] k = "conversational" -> "Conversational Companion"]

Composite(rs) ==
    LET acc[i \in 0..Len(rs)] ==
            IF i = 0 THEN <<>>
            ELSE acc[i - 1] \o (IF i = 1 THEN <<>> ELSE <<"NL", "NL">>)
                 \o <<Labels[rs[i][1]], "NL">> \o rs[i][2]
    IN  acc[Len(rs)]

\* C3: the composite response has one labelled section per routed tag, in
\* the order of the routing decision, joined by a blank line, and it is
\* rendered only after every invocation of the query has terminated.
C3_SectionsInRoutingOrder ==
    /\ (pc = "done" /\ Parsed /\ results # <<>>) =>
          /\ ResultKeys = RoutedTags
          /\ response.ai = Composite(results)
    /\ (Parsed /\ pc \in {"aggregate", "done"}) =>
          /\ hpc = "idle"
          /\ call.state = "none"
          /\ Len(results) = Len(RoutedTags)

\* a response of three sections for three different tags
C3_Witness ==
    /\ pc = "done"
    /\ Len(results) = 3
    /\ NoDuplicates(ResultKeys)
    /\ response.ai = Composite(results)

\* the running invocation can take a step of its own
HandlerStep ==
    \/ \E purchases \in StoredPurchases, timeout_env \in TimeoutEnvs :
            run_individual_agent(purchases, timeout_env)
    \/ \E reply \in RepliesNow : tier_answers(reply)
    \/ tier_raises
    \/ tier_times_out
    \/ run_credit_score_agent
    \/ credit_resumes
    \/ run_group_task_agent
    \/ run_conversational_agent
    \/ \E reply \in RepliesNow : handler_answers(reply)
    \/ handler_raises
    \/ collect_result

\* C4: every handler invocation terminates, also when the generative
\* backend never answers: a running invocation always has a next step that
\* takes it to a terminal status.
C4_InvocationTerminates == pc = "handler" => ENABLED HandlerStep

\* C5: every call of the entry point with a query returns non-empty text.
C5_NonEmptyText ==
    (pc \in {"done", "raised"} /\ user_query # <<>>) =>
        /\ response.status = "returned"
        /\ response.ai # <<>>

\* C6: for every classifier output the tags dispatched to handlers number
\* between 1 and 3 and hold no tag twice.
C6_OneToThreeDistinctTags ==
    (pc = "done" /\ Parsed) =>
        /\ Len(results) \in 1..3
        /\ NoDuplicates(ResultKeys)

\* the classifier's output is no recognized digit and names no list of
\* recognized tags
Unrecognized(raw) ==
    \/ raw.kind \in {"text", "nontext", "nondict"}
    \/ raw.kind = "digit" /\ raw.d \notin {"1", "2", "3", "4"}
    \/ raw.kind = "dict" /\ raw.agents.k # "list"
    \/ raw.kind = "dict" /\ raw.agents.k = "list" /\ raw.agents.v = <<>>
    \/ raw.kind = "dict" /\ raw.agents.k = "list"
          /\ \E i \in 1..Len(raw.agents.v) : raw.agents.v[i] \notin valid_agents

\* C7: when the classifier output is no recognized digit and its payload
\* does not parse, names an unrecognized tag or has no tags, the routing
\* decision is exactly {conversational} and nothing of the parse error
\* reaches the user.
C7_DefaultsToConversational ==
    (Parsed /\ Unrecognized(decider_raw)) =>
        /\ response.status # "raised"
        /\ pc = "done" => ResultKeys = <<"conversational">>


\* an invocation of the tiered handler is under way
TieredInvocation ==
    IF pc = "handler" THEN current_key = "individual" /\ hpc # "start" ELSE FALSE

Failed(attempt) == attempt.end \in {"raised", "timed_out"}

\* pending, or the terminal status the invocation has reached
InvocationStatus ==
    IF hpc = "returned" THEN (IF hret.kind = "text" THEN "success" ELSE "failed")
    ELSE IF hpc = "idle" THEN "none"
    ELSE "pending"

\* tiers in the order 1, 2, 3, each once, one at a time, a later tier only
\* after the failure of the one before it
C8_InOrder ==
    TieredInvocation =>
        /\ attempts # <<>>
        /\ \A i \in 1..Len(attempts) :
              /\ attempts[i].tier \in 1..3
              /\ i < Len(attempts) =>
                    /\ Failed(attempts[i])
                    /\ attempts[i + 1].tier = attempts[i].tier + 1
              /\ attempts[i].tier = 2 => i > 1
              /\ attempts[i].end = "running" <=>
                    /\ i = Len(attempts)
                    /\ call.state # "none"
                    /\ attempts[i].tier \in {1, 2}
        /\ Cardinality({i \in 1..Len(attempts) : attempts[i].tier \in {1, 2}}) <= 2

\* a tier that succeeded ends the invocation with that tier's result
C8_SuccessEnds ==
    TieredInvocation =>
        \A i \in 1..Len(attempts) :
            /\ attempts[i].end = "answered" =>
                  /\ i = Len(attempts)
                  /\ hpc = "returned"
                  /\ hret \in BackendReplies("individual")
            /\ attempts[i].end = "computed" =>
                  /\ i = Len(attempts)
                  /\ attempts[i].tier = 3
                  /\ hpc = "returned"
                  /\ hret = Tier3(mock_purchases)

\* Tier 3 only after Tier 2 has failed
C8_Tier3AfterTier2 ==
    TieredInvocation =>
        \A i \in 1..Len(attempts) :
            attempts[i].tier = 3 =>
                /\ i > 1
                /\ attempts[i - 1].tier = 2
                /\ Failed(attempts[i - 1])

\* Tier 3 after Tier 2 has failed, or at once and alone when no generative
\* backend is configured
C8_Tier3AfterTier2OrNoBackend ==
    TieredInvocation =>
        \A i \in 1..Len(attempts) :
            attempts[i].tier = 3 =>
                \/ /\ i > 1
                   /\ attempts[i - 1].tier = 2
                   /\ Failed(attempts[i - 1])
                   /\ apiKey
                \/ /\ ~apiKey
                   /\ Len(attempts) = 1

\* the status goes from pending to one terminal status and stays there
\* until the invocation is handed to the executor
C8_StatusStep ==
    /\ (TieredInvocation /\ InvocationStatus \in {"success", "failed"}) =>
          \/ InvocationStatus' = InvocationStatus /\ hret' = hret /\ attempts' = attempts
          \/ InvocationStatus' = "none"
    /\ (TieredInvocation /\ InvocationStatus = "pending") =>
          InvocationStatus' \in {"pending", "success", "failed"}

\* C8: within one invocation of the tiered handler the tiers are attempted
\* in the order 1, 2, 3, each at most once and never two at a time: Tier 2
\* starts only after Tier 1 failed, Tier 3 starts only after Tier 2 failed
\* or, when no generative backend is configured, at once as the only tier;
\* a tier that succeeds ends the invocation with its result, at most two
\* generative attempts are made, and the status goes from pending to one
\* terminal status that does not change afterwards.
C8_TiersSequential ==
    /\ [](C8_InOrder /\ C8_SuccessEnds /\ C8_Tier3AfterTier2OrNoBackend)
    /\ [][C8_StatusStep]_vars

\* the same with Tier 3 starting only after Tier 2 failed
C8_TiersSequentialStrict ==
    /\ [](C8_InOrder /\ C8_SuccessEnds /\ C8_Tier3AfterTier2)
    /\ [][C8_StatusStep]_vars

\* all three tiers were attempted: Tier 1 raised, Tier 2 timed out and
\* Tier 3 computed the text
C8_Witness ==
    /\ TieredInvocation
    /\ Len(attempts) = 3
    /\ attempts[1] = [tier |-> 1, end |-> "raised"]
    /\ attempts[2] = [tier |-> 2, end |-> "timed_out"]
    /\ attempts[3] = [tier |-> 3, end |-> "computed"]
    /\ InvocationStatus = "success"

\* C9: the deterministic fallback never fails: for every record set and
\* every value of today it returns a text and raises nothing.
C9_Tier3NeverFails ==
    fb_pc = "done" => (~fb_out.raised /\ fb_out.text # <<>>)

\* words that hold a group-splitting phrase, in any case
SplitWords ==
    {"split $120 dinner evenly", "SPLIT", "split the best card i can afford"}

HasSplitPhrase(query) == \E i \in 1..Len(query) : query[i] \in SplitWords

Routed == pc \in {"parse", "loop", "handler", "aggregate", "done"} /\ user_query # <<>>

\* C10: for every query that holds a group-splitting phrase, whatever else
\* it holds and whatever the chat is, the router selects group-coordination
\* as the first tag.
C10_SplitRoutesToGroup ==
    (Routed /\ HasSplitPhrase(user_query)) =>
        /\ decider_raw.kind = "digit" /\ decider_raw.d = "3"
        /\ Parsed => (agent_keys.k = "list" /\ agent_keys.v # <<>>
                      /\ agent_keys.v[1] = "group_task")
        /\ (pc = "done" /\ Parsed) => (results # <<>> /\ results[1][1] = "group_task")

\* a query that holds a split phrase next to credit and spending keywords,
\* answered in a chat without a group by the group handler
C10_Witness ==
    /\ pc = "done"
    /\ chat_id = 1
    /\ user_query = <<"split the best card i can afford">>
    /\ results # <<>>
    /\ results[1][1] = "group_task"


\* words that hold a credit phrase ("credit score" or "best card")
CreditWords == {"best card", "split the best card i can afford"}

HasCreditPhrase(query) == \E i \in 1..Len(query) : query[i] \in CreditWords

\* C11: for every query that holds "credit score" or "best card", also next
\* to terms of other categories, the routed tags include credit-advisory.
C11_CreditPhraseRoutesToCredit ==
    (Parsed /\ HasCreditPhrase(user_query)) =>
        \E i \in 1..Len(RoutedTags) : RoutedTags[i] = "credit_score"

\* words that hold no keyword of the router
PlainWords == {"hello"}

MatchesNothing(query) == query # <<>> /\ \A i \in 1..Len(query) : query[i] \in PlainWords

\* C12: for every query that matches none of the keyword sets, when no
\* generative classifier is configured, the router returns exactly
\* {conversational} and makes no generative call.
C12_NoKeyDefaultsToConversational ==
    (~apiKey /\ MatchesNothing(user_query)) =>
        /\ call.state = "none"
        /\ pc # "decider_await"
        /\ Routed => (decider_raw.kind = "digit" /\ decider_raw.d = "4")
        /\ Parsed => agent_keys = [k |-> "list", v |-> <<"conversational">>]
        /\ (Parsed /\ pc = "done") => ResultKeys = <<"conversational">>

\* a plain query answered without a key by the conversational handler alone
C12_Witness ==
    /\ ~apiKey
    /\ pc = "done"
    /\ user_query = <<"hello">>
    /\ ResultKeys = <<"conversational">>
    /\ results[1][2] = CONVERSATIONAL_NO_KEY_TEXT

\* words that hold a group, a credit and a personal-finance keyword at once
AllCategoryWords == {"split the best card i can afford"}

\* C13: a query that matches group, credit and personal-finance keywords
\* at once gets exactly 3 sections, in the order group-coordination,
\* credit-advisory, personal-finance.
C13_ThreeSections ==
    (pc = "done" /\ Parsed /\ \E i \in 1..Len(user_query) : user_query[i] \in AllCategoryWords) =>
        ResultKeys = <<"group_task", "credit_score", "individual">>


\* C14: two calls of the deterministic fallback engine with identical
\* (records, today) return identical text: the output depends on no wall
\* clock or other hidden state.
C14_Deterministic == fb_pc = "twice" => fb_again = fb_out


Contains(text, token) == \E i \in 1..Len(text) : text[i] = token

\* the personal-finance fallback has returned
RecommendationDone == fb_pc \in {"done", "twice"} /\ fb_in.kind = "individual"

\* C15: with an empty record set the personal-finance fallback computes a
\* 7-day sum of 0, a 30-day sum of 0 and a baseline of 0, takes the
\* absolute-threshold branch, does not set the risk flag, states that data
\* is not yet available, and does not raise.
C15_EmptyRecords ==
    (RecommendationDone /\ fb_in.records = <<>>) =>
        /\ ~fb_out.raised
        /\ fb_out.total_7 = 0
        /\ fb_out.total_30 = 0
        /\ fb_out.total_30 \div 4 = 0
        /\ fb_out.branch = "absolute"
        /\ ~fb_out.risk
        /\ fb_out.top = NONE
        /\ Contains(fb_out.text, "Top merchant: data not yet available.")
        /\ Contains(fb_out.text, "Recent spend is within a steady band")
        /\ ~Contains(fb_out.text, "Recent spend looks elevated")

\* the fallback was called with no records and has returned its text
C15_Witness ==
    /\ RecommendationDone
    /\ fb_in.records = <<>>
    /\ fb_out.text # <<>>
    /\ fb_out.branch = "absolute"

\* C16: with baseline = 30-day sum / 4, the risk flag is set exactly when
\* the 7-day sum is greater than baseline * 1.25 if the baseline is not
\* zero, and exactly when the 7-day sum exceeds the absolute threshold if
\* it is zero; a 30-day sum of 400 with a 7-day sum of 130 sets the flag
\* and a 7-day sum of exactly 125 does not.
C16_RiskFlag ==
    (RecommendationDone /\ ~fb_out.raised) =>
        /\ fb_out.total_30 # 0 =>
              (fb_out.risk <=> 400 * fb_out.total_7 > 125 * fb_out.total_30)
        /\ fb_out.total_30 = 0 => (fb_out.risk <=> fb_out.total_7 > 400)
        /\ (fb_out.total_30 = 400 /\ fb_out.total_7 = 130) => fb_out.risk
        /\ (fb_out.total_30 = 400 /\ fb_out.total_7 = 125) => ~fb_out.risk
        /\ Contains(fb_out.text, "Recent spend looks elevated") <=> fb_out.risk

\* a 30-day sum of 400 with a 7-day sum of exactly 125: no flag
C16_Witness ==
    /\ RecommendationDone
    /\ fb_out.total_30 = 400
    /\ fb_out.total_7 = 125
    /\ ~fb_out.risk


\* the group fallback has returned its text
GroupFallbackDone == fb_pc = "done" /\ fb_in.kind = "group"

\* amount / count in cents, rounded to the nearest cent
Rounded(num, den) == (2 * num + den) \div (2 * den)

\* C17: when the amount extracted from the query and the participant
\* count are both resolvable, the group-coordination deterministic result
\* gives a per-person share of amount / count and a tip-adjusted share of
\* amount * 1.15 / count, both rounded to 2 decimals: 40.00 and 46.00 for
\* $120 and 3 participants.
C17_SplitArithmetic ==
    (GroupFallbackDone /\ _extract_amount(fb_in.query) >= 0 /\ Len(fb_in.members) > 0) =>
        LET amount == _extract_amount(fb_in.query)
            count == Len(fb_in.members)
        IN  /\ Contains(fb_out.text, ToString(Rounded(amount, count)))
            /\ Contains(fb_out.text, ToString(Rounded(115 * amount, 100 * count)))
            /\ (amount = 12000 /\ count = 3) =>
                  (Contains(fb_out.text, "4000") /\ Contains(fb_out.text, "4600"))

\* the participants a split line of the text names
NamedInSplit(text) == {text[i + 1] : i \in {j \in 1..(Len(text) - 1) : text[j] = "-"}}

\* the shares the split lines of the text show
SharesInSplit(text) == {text[i + 2] : i \in {j \in 1..(Len(text) - 2) : text[j] = "-"}}

\* C18: when the amount or the participant count is unresolvable, the
\* group-coordination deterministic result states the missing piece and
\* does not guess: it shows no computed share and invents no participants.
C18_NoGuess ==
    (GroupFallbackDone /\ (_extract_amount(fb_in.query) < 0 \/ Len(fb_in.members) = 0)) =>
        /\ SharesInSplit(fb_out.text) \subseteq {"amount TBD"}
        /\ NamedInSplit(fb_out.text) \subseteq {fb_in.members[i] : i \in 1..Len(fb_in.members)}
        /\ _extract_amount(fb_in.query) < 0 => Contains(fb_out.text, "the total amount")


\* every routed handler failed
AllFailed == results # <<>> /\ \A i \in 1..Len(results) : results[i][2] = APOLOGY

\* C19: if every section of a response failed, the aggregator renders one
\* single generic apology instead of per-tag sections.
C19_SingleApology ==
    (pc = "done" /\ Parsed /\ AllFailed) =>
        Cardinality({i \in 1..Len(response.ai) : <<response.ai[i]>> = APOLOGY}) = 1

\* a handler has been called and has not been collected yet
Called == IF pc = "handler" THEN hpc # "start" ELSE FALSE

\* C20: the group-coordination, credit-advisory and conversational
\* handlers are called with arguments that hold nothing of the user's
\* transaction records, the personal-finance handler with arguments that
\* hold nothing of the group roster, and the records are loaded only for
\* the personal-finance handler.
C20_LeastContext ==
    /\ mock_purchases # <<>> => (Called /\ current_key = "individual")
    /\ Called =>
          /\ hin.query = user_query
          /\ current_key # "individual" =>
                /\ "purchases" \notin hin.passed
                /\ hin.purchases = <<>>
          /\ current_key = "individual" =>
                /\ hin.passed = {"purchases"}
                /\ hin.purchases = mock_purchases
                /\ hin.members = <<>>
                /\ hin.history = <<>>
          /\ current_key = "group_task" =>
                /\ hin.members = (CASE chat_id = 2 -> <<"Alice Demo", "Bob Test">>
                                    [] chat_id = 3 -> <<"Alice Demo", "Bob Test", "Charlie Sample">>
                                    [] OTHER -> <<>>)
          /\ current_key \in {"credit_score", "conversational"} =>
                /\ "group" \notin hin.passed
                /\ hin.members = <<>>
          /\ current_key = "credit_score" => hin.history = <<>>

\* the group handler called after the personal-finance handler of the same
\* request has loaded and used the user's records
C20_Witness ==
    /\ Called
    /\ current_key = "group_task"
    /\ results # <<>>
    /\ results[1][1] = "individual"
    /\ hin.members # <<>>
    /\ hin.purchases = <<>>

\* the request is over: create_message returned or raised
RequestOver == pc \in {"done", "raised"} /\ chat_id \in ChatIds

\* the message the request stored first carries the trigger and is a user's
Triggered(msgs) ==
    /\ msgs # <<>>
    /\ msgs[1].sender_type = "user"
    /\ msgs[1].content # <<>>
    /\ Head(msgs[1].content) = "@advisor"

\* C21: for every user message that carries the @advisor trigger the
\* message layer appends exactly one AI message holding the composite
\* response to the same chat, after that user message, and returns it to
\* the caller, whatever the classifier and the handlers do; a message
\* without the trigger, or not sent by a user, gets no AI message.
C21_OneAIMessage ==
    RequestOver =>
        LET msgs == MOCK_MESSAGES[chat_id]
        IN  /\ \A c \in ChatIds \ {chat_id} : MOCK_MESSAGES[c] = <<>>
            /\ IF Triggered(msgs)
               THEN /\ Len(msgs) = 2
                    /\ msgs[2].sender_type = "ai"
                    /\ response.status = "returned"
                    /\ msgs[2].content = response.ai
               ELSE /\ Len(msgs) = 1
                    /\ response.status = "returned_no_ai"

\* words that hold a personal-finance phrase ("afford")
IndividualWords == {"afford", "split the best card i can afford"}

HasIndividualPhrase(query) == \E i \in 1..Len(query) : query[i] \in IndividualWords

\* the category of highest priority the query holds a phrase of: group
\* before credit before personal finance
FirstCategory(query) ==
    IF HasSplitPhrase(query) THEN "group_task"
    ELSE IF HasCreditPhrase(query) THEN "credit_score"
    ELSE IF HasIndividualPhrase(query) THEN "individual"
    ELSE NONE

DigitOfCategory(category) ==
    CASE category = "group_task" -> "3"
      [] category = "credit_score" -> "2"
      [] category = "individual" -> "1"

RECURSIVE Dedupe(_)
Dedupe(seq) ==
    IF seq = <<>> THEN <<>>
    ELSE LET front == Dedupe(SubSeq(seq, 1, Len(seq) - 1))
             last == seq[Len(seq)]
         IN  IF \E i \in 1..Len(front) : front[i] = last THEN front ELSE Append(front, last)

\* the classifier handed back a JSON object with a list of recognized tags
ListOfTags(raw) ==
    /\ raw.kind = "dict"
    /\ raw.agents.k = "list"
    /\ raw.agents.v # <<>>
    /\ \A i \in 1..Len(raw.agents.v) : raw.agents.v[i] \in valid_agents

\* C23: the dispatched tags are the classifier's tags with duplicates
\* removed, the first occurrence kept, then cut to the first 3: a payload
\* listing A, A, B, C dispatches A, B, C.
C23_DedupeThenTruncate ==
    (pc = "done" /\ Parsed /\ ListOfTags(decider_raw)) =>
        ResultKeys = Take(Dedupe(decider_raw.agents.v), 3)

\* the model of the generative call of a tier
ModelOfTier(tier) == IF tier = 1 THEN "openai/gpt-5" ELSE "openai/gpt-4.1-mini"

\* C24: after a tier's deadline expires the in-flight attempt is abandoned
\* and its result is discarded: control goes to the next tier, and an
\* answer the backend gives later to the timed-out attempt never becomes
\* the invocation's result.
C24_LateAnswerDiscarded ==
    TieredInvocation =>
        /\ \A i \in 1..Len(attempts) :
              attempts[i].end = "timed_out" =>
                  /\ i < Len(attempts)
                  /\ attempts[i + 1].tier = attempts[i].tier + 1
                  /\ call.state # "none" => call.model # ModelOfTier(attempts[i].tier)
        /\ abandoned \subseteq
              {ModelOfTier(attempts[i].tier) :
                  i \in {j \in 1..Len(attempts) : attempts[j].end = "timed_out"}}
        /\ hpc = "returned" =>
              LET last == attempts[Len(attempts)]
              IN  /\ last.end \in {"answered", "computed", "raised"}
                  /\ last.end = "answered" => hret \in BackendReplies("individual")
                  /\ last.tier = 3 => hret = Tier3(mock_purchases)
        /\ hpc \in {"tier1", "tier2"} => hret = NoRet

\* Tier 1 and Tier 2 both timed out, Tier 3 computed the text, and the
\* backend has since answered both abandoned calls
C24_Witness ==
    /\ TieredInvocation
    /\ hpc = "returned"
    /\ Len(attempts) = 3
    /\ attempts[1].end = "timed_out"
    /\ attempts[2].end = "timed_out"
    /\ abandoned = {}
    /\ hret = Tier3(mock_purchases)
    /\ hret.kind = "text"

\* the budgets of the two generative attempts have been worked out
Budgeted == fb_pc = "budgeted"

\* the whole number h with 2h <= n < 2h + 2
HalfDown(n) == CHOOSE h \in (0 - MaxTimeout - 2)..(MaxTimeout + 2) : 2 * h <= n /\ n < 2 * h + 2

\* C25: Tier 1 runs with auxiliary tools under the configured primary
\* budget, which is 60 seconds when none is configured or the configured
\* value is not an integer; Tier 2 runs without auxiliary tools on the
\* lighter model under max(primary / 2 rounded down, 15) seconds.
C25_TierBudgets ==
    Budgeted =>
        LET env == fb_in.timeout_env
            primary == IF env.kind = "int" THEN env.n ELSE 60
            secondary == IF HalfDown(primary) > 15 THEN HalfDown(primary) ELSE 15
        IN  fb_out.text =
                <<"openai/gpt-5", "tools", ToString(primary),
                  "openai/gpt-4.1-mini", "no tools", ToString(secondary)>>

\* a configured budget of 45 seconds: 45 for Tier 1 and 22 for Tier 2
C25_Witness ==
    /\ Budgeted
    /\ fb_in.timeout_env = [kind |-> "int", n |-> 45]
    /\ fb_out.text[3] = "45"
    /\ fb_out.text[6] = "22"

\* the first token of the deterministic text of each handler
DeterministicHead(key) ==
    CASE key = "individual" -> "**Purchase Recommendation:** Wait"
      [] key = "group_task" -> "**Task Summary:**"
      [] key = "credit_score" -> "**Best Card:**"
      [] key = "conversational" -> "Hey"

\* C26: when no generative backend is configured, neither the router nor
\* any of the four handlers issues a generative call, and every handler
\* invocation returns its deterministic text at once (Tier 3 for
\* personal-finance and group-coordination, the card answer for
\* credit-advisory, the fixed polite fallback for conversational).
C26_NoBackendNoCall ==
    ~apiKey =>
        /\ call.state = "none"
        /\ abandoned = {}
        /\ pc # "decider_await"
        /\ pc = "handler" =>
              /\ hpc \in {"start", "returned"}
              /\ hpc = "returned" =>
                    /\ attempts = <<[tier |-> 3, end |-> "computed"]>>
                    /\ hret.kind = "text"
                    /\ hret.text # <<>>
                    /\ Head(hret.text) = DeterministicHead(current_key)

\* the credit handler has returned its text
CreditDone == fb_pc = "done" /\ fb_in.kind = "credit"

\* the token that follows a label in a text, NONE when the label is absent
After(text, label) ==
    IF \E i \in 1..(Len(text) - 1) : text[i] = label
    THEN text[(CHOOSE i \in 1..(Len(text) - 1) : text[i] = label) + 1]
    ELSE NONE

\* the spend categories a keyword of which occurs in the query
CategoriesIn(query) ==
    {c \in {"travel", "dining", "groceries", "entertainment", "gas", "online"} :
        \E i \in 1..Len(query) :
            \/ c = "travel" /\ query[i] = "best card for travel and dining"
            \/ c = "dining" /\ query[i] \in {"best card for travel and dining",
                                             "which card gives great cashback"}
            \/ c = "groceries" /\ query[i] = "best card for groceries"
            \/ c = "gas" /\ query[i] = "BEST CARD FOR GAS"}

\* C27: in every configuration the credit-advisory handler's result is
\* determined by the spend category detected from the query's keywords:
\* the best and the backup card are the first and the second entry of the
\* static knowledge table for that category, and the general default when
\* no category keyword occurs.
C27_CreditByCategory ==
    CreditDone =>
        IF CategoriesIn(fb_in.query) = {}
        THEN After(fb_out.text, "**Best Card:**") = "Chase Freedom Unlimited"
        ELSE \E c \in CategoriesIn(fb_in.query) :
                /\ After(fb_out.text, "**Best Card:**") = CATEGORY_RECOMMENDATIONS(c)[1]
                /\ After(fb_out.text, "**Backup Option:**") = CATEGORY_RECOMMENDATIONS(c)[2]

\* the day 'today' stands for in a call of the personal-finance fallback
AnchorDay == IF fb_in.today.ts \in {"naive", "aware"} THEN fb_in.today.day ELSE fb_in.now

\* the records with a readable timestamp in the `days` days ending at the
\* anchor day
RecordsWithin(records, days) ==
    {i \in 1..Len(records) :
        /\ records[i].ts \in {"naive", "aware"}
        /\ AnchorDay - days <= records[i].day
        /\ records[i].day <= AnchorDay}

AmountOf(record) == IF record.total # 0 THEN record.total ELSE record.paid

NameOf(record) == IF record.merchant = NONE THEN "Unknown merchant" ELSE record.merchant

RECURSIVE SumOver(_, _)
SumOver(records, which) ==
    IF which = {} THEN 0
    ELSE LET i == CHOOSE i \in which : TRUE
         IN  AmountOf(records[i]) + SumOver(records, which \ {i})

MerchantSum(records, name) ==
    SumOver(records, {i \in RecordsWithin(records, 30) : NameOf(records[i]) = name})

\* C28: a record adds its amount to the 30-day sum exactly when its
\* timestamp lies in the 30 days ending at 'today', and to the 7-day sum
\* exactly when it lies in the 7 days ending at 'today'; records dated
\* after 'today' or before the window add nothing; the top merchant is the
\* merchant with the largest 30-day total.
C28_WindowSums ==
    (RecommendationDone /\ ~fb_out.raised) =>
        LET records == fb_in.records
            within == RecordsWithin(records, 30)
        IN  /\ fb_out.total_30 = SumOver(records, within)
            /\ fb_out.total_7 = SumOver(records, RecordsWithin(records, 7))
            /\ within = {} => fb_out.top = NONE
            /\ within # {} =>
                  /\ \E i \in within : NameOf(records[i]) = fb_out.top
                  /\ \A i \in within :
                        MerchantSum(records, NameOf(records[i])) <= MerchantSum(records, fb_out.top)

\* the request's coroutine stands at an await that gave control to the
\* scheduler: in the router, or in a handler that has been entered and has
\* not returned
Suspended ==
    \/ pc = "decider_await"
    \/ pc = "handler" /\ hpc \notin {"start", "returned"}

\* C29: a handler invocation yields control to the scheduler only while a
\* tier is awaiting the generative backend; the deterministic router pass,
\* the credit-advisory handler and the Tier 3 fallbacks run to completion
\* without a suspension point.
C29_SuspendsOnlyAtBackend ==
    /\ Suspended => call.state \in {"pending", "silent"}
    /\ (pc = "handler" /\ current_key = "credit_score") => hpc \in {"start", "returned"}

\* the stored messages as (chat, position) pairs
Stored == {p \in ChatIds \X (1..2 * MaxRequests) : p[2] <= Len(MOCK_MESSAGES[p[1]])}

IdAt(p) == MOCK_MESSAGES[p[1]][p[2]].id

\* C30: after any interleaving of create_message calls at their await
\* points no two stored messages share an id, each AI reply has a larger
\* id than the user message it answers, and within each chat's message
\* list the ids are strictly increasing in list order.
C30_UniqueIds ==
    /\ \A p, q \in Stored : IdAt(p) = IdAt(q) => p = q
    /\ \A c \in ChatIds : \A i, j \in 1..Len(MOCK_MESSAGES[c]) :
          i < j => MOCK_MESSAGES[c][i].id < MOCK_MESSAGES[c][j].id
    /\ \A r \in Requests :
          requests[r].ai_message # 0 =>
              /\ requests[r].user_message < requests[r].ai_message
              /\ \E i, j \in 1..Len(MOCK_MESSAGES[requests[r].chat]) :
                    /\ i < j
                    /\ MOCK_MESSAGES[requests[r].chat][i].id = requests[r].user_message
                    /\ MOCK_MESSAGES[requests[r].chat][i].sender_type = "user"
                    /\ MOCK_MESSAGES[requests[r].chat][j].id = requests[r].ai_message
                    /\ MOCK_MESSAGES[requests[r].chat][j].sender_type = "ai"

\* two calls on one chat, the second come in and answered while the first
\* was waiting: the first call's reply is stored last
C30_Witness ==
    \E r, q \in Requests :
        /\ requests[r].chat = requests[q].chat
        /\ requests[r].ai_message # 0
        /\ requests[q].ai_message # 0
        /\ requests[r].user_message < requests[q].user_message
        /\ requests[q].ai_message < requests[r].ai_message

====
